---- MODULE Spec2Model ----
(***************************************************************************)
(* News / Auth / Articles API: the access-control gate (authenticate,      *)
(* isAdmin, isAuthorOrAdmin), the article mutation handlers and the        *)
(* WebSocket registry with its broadcast.                                  *)
(*                                                                         *)
(* Scheduling: Node's single-threaded event loop.  `running` names the     *)
(* request whose synchronous continuation is on the loop; every other task *)
(* (another request, a WebSocket event, the clock) waits until it is 0.    *)
(* A store call is a suspension point: the request leaves the loop and the *)
(* store's answer (a result or a thrown error) resumes it later.           *)
(*                                                                         *)
(* Transport: ws.send() on an OPEN socket queues the frame and returns; a  *)
(* frame that is then lost on the wire is marked `lost` and surfaces, if   *)
(* at all, as a later 'error' or 'close' event of that socket              *)
(* (ws.js:34-42).                                                          *)
(***************************************************************************)
EXTENDS Integers, Sequences, FiniteSets, TLC

\* ---------------------------------------------------------------- bounds
MaxConn == 2        \* WebSocket connections that may ever open
MaxReq == 2         \* HTTP request slots (requests in flight at once)
MaxTick == 2        \* clock advances

\* ------------------------------------------------------ program constants
ExpiresIn == 60     \* minutes: jwt.sign(..., { expiresIn: '1h' })
MinKeyLen == 2      \* delete-by-title/author: trim().length < 2 is refused
MinQueryLen == 2    \* search: query.trim().length < 2 is refused
DefaultPage == 1    \* parseInt(req.query.page) || 1
DefaultLimit == 10  \* parseInt(req.query.limit) || 10
MaxLimit == 100     \* limit > 100 is refused

TickMinutes == 31   \* one clock advance, in minutes
MaxUsers == 2       \* documents the users collection ever holds

Conns == 1..MaxConn
Reqs == 1..MaxReq

\* ---------------------------------------------------------------- strings
\* A string is a sequence of one-character strings; SP is the space.
SP == " "

RECURSIVE TrimLeft(_)
TrimLeft(s) == IF s # <<>> /\ Head(s) = SP THEN TrimLeft(Tail(s)) ELSE s

RECURSIVE TrimRight(_)
TrimRight(s) ==
    IF s # <<>> /\ s[Len(s)] = SP THEN TrimRight(SubSeq(s, 1, Len(s) - 1)) ELSE s

\* String.prototype.trim
Trim(s) == TrimRight(TrimLeft(s))

\* lower-casing of the one-letter alphabet used here
Lower(ch) == IF ch = "A" THEN "a" ELSE IF ch = "B" THEN "b" ELSE ch

\* new RegExp(pattern, 'i').test(text) for a pattern without metacharacters:
\* a case-insensitive substring test
RegexMatchI(pattern, text) ==
    \E i \in 0..(Len(text) - Len(pattern)) :
        \A j \in 1..Len(pattern) : Lower(text[i + j]) = Lower(pattern[j])

\* String.prototype.split(' '): the fields between single spaces
RECURSIVE SplitAcc(_, _, _)
SplitAcc(s, cur, acc) ==
    IF s = <<>> THEN Append(acc, cur)
    ELSE IF Head(s) = SP THEN SplitAcc(Tail(s), <<>>, Append(acc, cur))
    ELSE SplitAcc(Tail(s), Append(cur, Head(s)), acc)

Split(s) == SplitAcc(s, <<>>, <<>>)

\* ----------------------------------------------------------------- values
Undefined == "undefined"      \* a missing property / parameter
NoUser == [userId |-> 0, role |-> Undefined, iat |-> 0, exp |-> 0]

AD == <<"a", "d">>            \* usernames (and article authors)
AL == <<"a", "l">>
BO == <<"b", "o">>
ME == <<"m", "e">>

UserIds == 1..4
Roles == {"admin", "author", "member", "editor"}
Times == {i * TickMinutes : i \in 0..MaxTick}

\* ------------------------------------------------------------ Token Service
\* A JWT as the client holds it: an opaque run of non-space characters.
\* sig = "good" iff it was signed with process.env.JWT_SECRET.
JwtClaims == [userId : UserIds, role : Roles, iat : Times, sig : {"good", "bad"}]

\* header.payload.signature, the payload's claims spelled out
JwtString(t) ==
    "jwt." \o ToString(t.userId) \o "." \o t.role \o "." \o ToString(t.iat) \o "." \o t.sig

\* jwt.sign({ userId, role }, JWT_SECRET, { expiresIn: '1h' }) in loginUser
loginToken(userId, role, at) ==
    JwtString([userId |-> userId, role |-> role, iat |-> at, sig |-> "good"])

\* Faulty variant: the expiry is not looked at.
verifyTokenNoExpiry(token, at) ==
    IF \E t \in JwtClaims : JwtString(t) = token /\ t.sig = "good"
    THEN LET t == CHOOSE t \in JwtClaims : JwtString(t) = token
         IN [ok |-> TRUE,
             payload |-> [userId |-> t.userId, role |-> t.role, iat |-> t.iat,
                          exp |-> t.iat + ExpiresIn]]
    ELSE [ok |-> FALSE, payload |-> NoUser]

\* jwt.verify(token, JWT_SECRET): throws (ok = FALSE) on a malformed token, a
\* bad signature, or clockTimestamp >= exp; else returns the payload.
verifyToken(token, at) ==
    IF \E t \in JwtClaims :
          JwtString(t) = token /\ t.sig = "good" /\ at < t.iat + ExpiresIn
    THEN LET t == CHOOSE t \in JwtClaims : JwtString(t) = token
         IN [ok |-> TRUE,
             payload |-> [userId |-> t.userId, role |-> t.role, iat |-> t.iat,
                          exp |-> t.iat + ExpiresIn]]
    ELSE [ok |-> FALSE, payload |-> NoUser]

\* ------------------------------------------------------ Access Control Gate
\* The Authorization header: Undefined when absent, else a sequence of atoms,
\* each a space or a run of non-space characters.
NoHeader == <<Undefined>>

\* A field of the split header as one string: "" when empty, the run itself
\* when it is a single run, and a string no JWT equals otherwise.
FieldString(f) ==
    IF f = <<>> THEN "" ELSE IF Len(f) = 1 THEN f[1] ELSE "<concatenation>"

\* authHeader && authHeader.split(' ')[1]
ExtractToken(authHeader) ==
    IF authHeader = NoHeader THEN Undefined
    ELSE LET parts == Split(authHeader)
         IN IF Len(parts) < 2 THEN Undefined ELSE FieldString(parts[2])

\* authenticate(req, res, next): status 0 means no response was sent.
\* Faulty variant: the token is decoded, its signature and expiry not checked.
authenticateDecodeOnly(authHeader, at) ==
    LET token == ExtractToken(authHeader)
    IN IF token = Undefined \/ token = ""
       THEN [status |-> 401, next |-> 0, user |-> NoUser]
       ELSE IF \E t \in JwtClaims : JwtString(t) = token
       THEN LET t == CHOOSE t \in JwtClaims : JwtString(t) = token
            IN [status |-> 0, next |-> 1,
                user |-> [userId |-> t.userId, role |-> t.role, iat |-> t.iat,
                          exp |-> t.iat + ExpiresIn]]
       ELSE [status |-> 401, next |-> 0, user |-> NoUser]

authenticate(authHeader, at) ==
    LET token == ExtractToken(authHeader)
    IN IF token = Undefined \/ token = ""
       THEN [status |-> 401, next |-> 0, user |-> NoUser]
       ELSE LET v == verifyToken(token, at)
            IN IF v.ok THEN [status |-> 0, next |-> 1, user |-> v.payload]
               ELSE [status |-> 401, next |-> 0, user |-> NoUser]

\* Faulty variant: every role but member is let through.
isAdminLax(user) ==
    IF user.role = "member" \/ user.role = Undefined
    THEN [status |-> 403, next |-> 0] ELSE [status |-> 0, next |-> 1]

\* Faulty variant: the 403 is sent and next() is called all the same.
isAdminAnswersAndGoesOn(user) ==
    IF user.role # "admin" THEN [status |-> 403, next |-> 1]
    ELSE [status |-> 0, next |-> 1]

\* isAdmin(req, res, next)
isAdmin(user) ==
    IF user.role # "admin" THEN [status |-> 403, next |-> 0]
    ELSE [status |-> 0, next |-> 1]

\* ------------------------------------------------------------ Content Store
\* The articles collection: a function from the ids present to documents
\* [author, title].  Article ids are 1..MaxArticles; 0 stands for a request
\* parameter that is no valid ObjectId.
MaxArticles == 2

ArticleIds == 1..MaxArticles

ObjectIdIsValid(id) == id \in ArticleIds

NoArticle == [author |-> <<>>, title |-> <<>>]

\* $set: the body's field overwritten (updatedAt, always set, makes every
\* matched document a modified one)
SetFields(doc, body) ==
    IF body.field = "title" THEN [doc EXCEPT !.title = body.value]
    ELSE IF body.field = "author" THEN [doc EXCEPT !.author = body.value]
    ELSE doc

MatchTitle(store, title) == {i \in DOMAIN store : RegexMatchI(title, store[i].title)}
MatchAuthor(store, author) == {i \in DOMAIN store : store[i].author = author}

\* updateOne / updateMany / deleteOne / deleteMany over a set of matched ids:
\* the new collection and the count the driver reports
UpdateIds(store, ids, body) ==
    [store |-> [i \in DOMAIN store |->
                    IF i \in ids THEN SetFields(store[i], body) ELSE store[i]],
     count |-> Cardinality(ids)]

DeleteIds(store, ids) ==
    [store |-> [i \in DOMAIN store \ ids |-> store[i]],
     count |-> Cardinality(ids)]

\* insertOne: the document stored under a fresh id
InsertDoc(store, id, doc) ==
    [store |-> [i \in DOMAIN store \cup {id} |-> IF i = id THEN doc ELSE store[i]],
     count |-> 1]

\* articleModel.getArticleById: findOne({_id}) -> the document or null
FindById(store, id) == IF id \in DOMAIN store THEN store[id] ELSE NoArticle

\* req.user.username: the token payload carries userId and role only
PayloadUsername(user) ==
    IF "username" \in DOMAIN user THEN user.username ELSE <<Undefined>>

\* isAuthorOrAdmin(req, res, next).  hasId: req.params.articleId is present;
\* dbOk: the store answers the lookup.  threw: the lookup rejected inside the
\* async middleware (new ObjectId on a malformed id, or a store failure), so
\* neither a response nor next() follows.
isAuthorOrAdmin(user, hasId, articleId, store, dbOk) ==
    IF user = NoUser
    THEN [status |-> 403, next |-> 0, threw |-> FALSE, reads |-> 0]
    ELSE IF user.role = "admin"
    THEN [status |-> 0, next |-> 1, threw |-> FALSE, reads |-> 0]
    ELSE IF user.role = "author"
    THEN IF hasId
         THEN IF ~ObjectIdIsValid(articleId) \/ ~dbOk
              THEN [status |-> 0, next |-> 0, threw |-> TRUE, reads |-> 1]
              ELSE IF articleId \notin DOMAIN store
              THEN [status |-> 404, next |-> 0, threw |-> FALSE, reads |-> 1]
              ELSE IF FindById(store, articleId).author # PayloadUsername(user)
              THEN [status |-> 403, next |-> 0, threw |-> FALSE, reads |-> 1]
              ELSE [status |-> 0, next |-> 1, threw |-> FALSE, reads |-> 1]
         ELSE [status |-> 0, next |-> 1, threw |-> FALSE, reads |-> 0]
    ELSE [status |-> 403, next |-> 0, threw |-> FALSE, reads |-> 0]

\* -------------------------------------------------------------------- state
VARIABLES
    clients,     \* ws.js `clients`: a Set, kept as its insertion-ordered sequence
    readyState,  \* per connection: "NONE" (not yet accepted), "OPEN", "CLOSING", "CLOSED"
    wire,        \* the frames handed to ws.send() in the current turn of the loop, in order
    req,         \* per request slot: the request's inputs and its position in the chain
    articles,    \* the articles collection
    nextId,      \* the id the next insertOne yields
    users,       \* the users collection: id -> [username, email, password,
                 \* role, deleted]
    now,         \* the clock, in minutes
    running      \* the request whose continuation is on the event loop, or 0

wsVars == <<clients, readyState>>
storeVars == <<articles, nextId, users>>
vars == <<clients, readyState, wire, req, articles, nextId, users, now, running>>

\* ------------------------------------------------------ Connection Registry
SeqToSet(q) == {q[i] : i \in DOMAIN q}

\* Set.prototype.add: appended unless already a member
SetAdd(q, c) == IF c \in SeqToSet(q) THEN q ELSE Append(q, c)

\* Faulty variant: delete that removes nothing.
SetDeleteNothing(q, c) == q

\* Faulty variant: deleting an absent member empties the set.
SetDeleteAbsentClears(q, c) ==
    IF c \in SeqToSet(q) THEN SelectSeq(q, LAMBDA x : x # c) ELSE <<>>

\* Set.prototype.delete: removed if a member, the order of the rest kept
SetDelete(q, c) == SelectSeq(q, LAMBDA x : x # c)

\* a frame: ws.send(JSON.stringify(msg)) on connection `to`; lost: the frame
\* does not reach the peer
Frame(c, m, lost) == [to |-> c, msg |-> m, lost |-> lost]

NoEvent == [op |-> "none", req |-> 0]
Welcome == [type |-> "system.welcome", of |-> NoEvent]
Pong == [type |-> "pong", of |-> NoEvent]

\* the handlers wss.on('connection') installs are those of every accepted socket
Accepted(c) == readyState[c] # "NONE"

\* Faulty variant: the welcome sent twice.
welcomeFramesTwice(c, fail) == <<Frame(c, Welcome, fail), Frame(c, Welcome, fail)>>

\* Faulty variant: the last article event replayed to the newcomer.
welcomeFramesReplay(c, fail) ==
    <<Frame(c, Welcome, fail),
      Frame(c, [type |-> "article.created", of |-> [op |-> "createArticle", req |-> 1]], fail)>>

\* ws.send(welcome) in the connection handler
welcomeFrames(c, fail) == <<Frame(c, Welcome, fail)>>

\* Faulty variant: a connection whose welcome fails is not registered.
ConnectionDropsOnFail(c, fail) ==
    /\ running = 0 /\ wire = <<>>
    /\ readyState[c] = "NONE"
    /\ IF c = 1 THEN TRUE ELSE readyState[c - 1] # "NONE"
    /\ clients' = IF fail THEN clients ELSE SetAdd(clients, c)
    /\ wire' = welcomeFrames(c, fail)
    /\ readyState' = [readyState EXCEPT ![c] = "OPEN"]
    /\ UNCHANGED <<req, articles, nextId, users, now, running>>

\* wss.on('connection', ws => ...): register, welcome, install the handlers.
\* fail: the welcome frame is lost on the wire.  Connections are numbered in
\* the order they are accepted.
Connection(c, fail) ==
    /\ running = 0 /\ wire = <<>>
    /\ readyState[c] = "NONE"
    /\ IF c = 1 THEN TRUE ELSE readyState[c - 1] # "NONE"
    /\ clients' = SetAdd(clients, c)
    /\ wire' = welcomeFrames(c, fail)
    /\ readyState' = [readyState EXCEPT ![c] = "OPEN"]
    /\ UNCHANGED <<req, articles, nextId, users, now, running>>

\* Faulty variant: the pong goes to every registered connection.
messageFramesToAll(c, data, fail) ==
    IF data = "ping" THEN [i \in 1..Len(clients) |-> Frame(clients[i], Pong, fail)]
    ELSE <<>>

\* the frames the message handler sends: a pong to the sender when the
\* message parses and its type is ping, nothing otherwise
messageFrames(c, data, fail) ==
    IF data = "ping" THEN <<Frame(c, Pong, fail)>> ELSE <<>>

\* ws.on('message'): JSON.parse, and a pong to the sender when type is ping.
\* data: "ping", "other" (valid JSON of another type), "garbage" (not JSON).
Message(c, data, fail) ==
    /\ running = 0 /\ wire = <<>>
    /\ readyState[c] = "OPEN"
    /\ data # "ping" => ~fail
    /\ wire' = messageFrames(c, data, fail)
    /\ UNCHANGED <<clients, readyState, req, articles, nextId, users, now, running>>

\* The peer starts the closing handshake (or the socket drops): no event yet.
BeginClose(c) ==
    /\ running = 0 /\ wire = <<>>
    /\ readyState[c] = "OPEN"
    /\ readyState' = [readyState EXCEPT ![c] = "CLOSING"]
    /\ wire' = <<>>
    /\ UNCHANGED <<clients, req, articles, nextId, users, now, running>>

\* ws.on('error'): clients.delete(ws).  The socket is closing from here on.
ErrorEvent(c) ==
    /\ running = 0 /\ wire = <<>>
    /\ readyState[c] \in {"OPEN", "CLOSING"}
    /\ clients' = SetDelete(clients, c)
    /\ readyState' = [readyState EXCEPT ![c] = "CLOSING"]
    /\ wire' = <<>>
    /\ UNCHANGED <<req, articles, nextId, users, now, running>>

\* ws.on('close'): clients.delete(ws).  Emitted once, as the socket reaches CLOSED.
CloseEvent(c) ==
    /\ running = 0 /\ wire = <<>>
    /\ readyState[c] \in {"OPEN", "CLOSING"}
    /\ clients' = SetDelete(clients, c)
    /\ readyState' = [readyState EXCEPT ![c] = "CLOSED"]
    /\ wire' = <<>>
    /\ UNCHANGED <<req, articles, nextId, users, now, running>>

\* The turn of a WebSocket handler ends: its frames have left the process.
EndTurn ==
    /\ running = 0
    /\ wire # <<>>
    /\ wire' = <<>>
    /\ UNCHANGED <<clients, readyState, req, articles, nextId, users, now, running>>

\* --------------------------------------------------- Broadcast Dispatcher
\* clients.forEach(client => { if (client.readyState === OPEN) client.send(m) })
\* over the registry q in insertion order, from position i on; sent: the
\* frames issued so far.  F: the connections whose frame is lost on the wire;
\* the loop neither sees nor reacts to a loss.
\* Faulty variant: a lost frame aborts the pass, as a send that throws would.
RECURSIVE forEachSendUntilLoss(_, _, _, _, _, _)
forEachSendUntilLoss(q, i, rs, sent, m, F) ==
    IF i > Len(q) THEN sent
    ELSE IF rs[q[i]] = "OPEN" /\ q[i] \in F THEN Append(sent, Frame(q[i], m, TRUE))
    ELSE forEachSendUntilLoss(q, i + 1, rs,
                              IF rs[q[i]] = "OPEN"
                              THEN Append(sent, Frame(q[i], m, FALSE))
                              ELSE sent,
                              m, F)

\* Faulty variant: the entry after one found not open is stepped over, as in
\* an index loop over a list that shrinks under it.
RECURSIVE forEachSendSkipping(_, _, _, _, _, _)
forEachSendSkipping(q, i, rs, sent, m, F) ==
    IF i > Len(q) THEN sent
    ELSE IF rs[q[i]] = "OPEN"
    THEN forEachSendSkipping(q, i + 1, rs, Append(sent, Frame(q[i], m, q[i] \in F)), m, F)
    ELSE forEachSendSkipping(q, i + 2, rs, sent, m, F)

RECURSIVE forEachSend(_, _, _, _, _, _)
forEachSend(q, i, rs, sent, m, F) ==
    IF i > Len(q) THEN sent
    ELSE forEachSend(q, i + 1, rs,
                     IF rs[q[i]] = "OPEN"
                     THEN Append(sent, Frame(q[i], m, q[i] \in F))
                     ELSE sent,
                     m, F)

\* Faulty variant: only the first registered connection is served.
broadcastHead(q, rs, m, F) ==
    IF q = <<>> THEN <<>> ELSE forEachSend(<<Head(q)>>, 1, rs, <<>>, m, F)

\* broadcast(message): the frames of one pass
broadcast(q, rs, m, F) == forEachSend(q, 1, rs, <<>>, m, F)

\* ------------------------------------------------------------ HTTP requests
CreateOp == "createArticle"
IdOps == {"updateArticle", "deleteArticle"}
TitleOps == {"updateArticlesByTitle", "deleteArticlesByTitle"}
AuthorOps == {"updateArticlesByAuthor", "deleteArticlesByAuthor"}
UpdateOps == {"updateArticle", "updateArticlesByTitle", "updateArticlesByAuthor"}
DeleteOps == {"deleteArticle", "deleteArticlesByTitle", "deleteArticlesByAuthor"}
Ops == {CreateOp} \cup UpdateOps \cup DeleteOps

\* article.routes.js: the routes that name isAuthorOrAdmin after the
\* router-wide authenticate, isAdmin
GatedOps == {"updateArticle", "updateArticlesByTitle", "updateArticlesByAuthor",
             "deleteArticle", "deleteArticlesByTitle"}

\* the catch block's status: 500 in create/update handlers, 400 in delete handlers
ErrorStatus(op) == IF op \in DeleteOps THEN 400 ELSE 500

\* the success status: 201 for create, res.json's 200 otherwise
SuccessStatus(op) == IF op = CreateOp THEN 201 ELSE 200

\* the type of the event a handler hands to wsBroadcast
EventType(op) ==
    CASE op = CreateOp -> "article.created"
      [] op = "updateArticle" -> "article.updated"
      [] op = "deleteArticle" -> "article.deleted"
      [] op \in UpdateOps -> "articles.updated"
      [] OTHER -> "articles.deleted"

\* the message a handler hands to wsBroadcast for request r
Event(r, q) == [type |-> EventType(q.op), of |-> [op |-> q.op, req |-> r]]

NoBody == [field |-> "none", value |-> <<>>]

Idle ==
    [pc |-> "idle", op |-> "none", hdr |-> NoHeader, hasId |-> FALSE,
     articleId |-> 0, key |-> <<>>, body |-> NoBody, doc |-> NoArticle,
     user |-> NoUser, status |-> 0, nAuth |-> 0, nAdmin |-> 0, nGate |-> 0,
     ran |-> FALSE, written |-> "no", count |-> 0, bcasts |-> 0,
     page |-> <<>>, limit |-> <<>>, reads |-> 0]

\* the service's own validation, which throws before any store call
ServiceRejects(q) ==
    CASE q.op \in IdOps -> ~ObjectIdIsValid(q.articleId)
      [] q.op \in {"updateArticlesByTitle", "updateArticlesByAuthor"} -> q.key = <<>>
      [] q.op \in {"deleteArticlesByTitle", "deleteArticlesByAuthor"} ->
             q.key = <<>> \/ Len(Trim(q.key)) < MinKeyLen
      [] OTHER -> FALSE

\* the model-layer write of each handler: the new collection and its count
StoreWrite(q, store, id) ==
    CASE q.op = CreateOp -> InsertDoc(store, id, q.doc)
      [] q.op = "updateArticle" ->
             UpdateIds(store, {q.articleId} \cap DOMAIN store, q.body)
      [] q.op = "updateArticlesByTitle" ->
             UpdateIds(store, MatchTitle(store, q.key), q.body)
      [] q.op = "updateArticlesByAuthor" ->
             UpdateIds(store, MatchAuthor(store, q.key), q.body)
      [] q.op = "deleteArticle" -> DeleteIds(store, {q.articleId} \cap DOMAIN store)
      [] q.op = "deleteArticlesByTitle" -> DeleteIds(store, MatchTitle(store, q.key))
      [] OTHER -> DeleteIds(store, MatchAuthor(store, q.key))

\* ------------------------------------------------------------- environment
TitleKeys == {<<"A", "b">>, <<"a", SP>>, <<"z", "z">>}
AuthorKeys == {AL, BO, <<"b">>}
Bodies == {[field |-> "author", value |-> BO]}
Docs == {[author |-> AL, title |-> <<"a", "b">>], [author |-> AL, title |-> <<>>]}

\* the tokens login has handed out by now to the users of U, at the times of T
Tokens(U, T) ==
    {loginToken(u, users[u].role, t) : u \in U \cap DOMAIN users, t \in {x \in T : x <= now}}

ForgedToken == JwtString([userId |-> 1, role |-> "admin", iat |-> 0, sig |-> "bad"])

\* Authorization headers: the documented form and the malformed ones
BearerHeaders(T) == {<<"Bearer", SP, t>> : t \in T}
OddHeaders(T) ==
    {<<"Bearer">>, <<"Bearer", SP>>}
        \cup {<<"Basic", SP, t>> : t \in T}
        \cup {<<t>> : t \in T}
        \cup {<<"Bearer", SP, SP, t>> : t \in T}
        \cup {<<"Bearer", t>> : t \in T}

\* the headers the requests of the full system carry
CoreHeaders == {NoHeader} \cup BearerHeaders(Tokens({1}, {0}))

\* every header shape, for the gate on its own
AllHeaders ==
    {NoHeader}
        \cup BearerHeaders(Tokens(UserIds, Times) \cup {ForgedToken, "garbage"})
        \cup OddHeaders(Tokens({1}, {0}))

\* req.params and req.body for each route
Inputs(op) ==
    CASE op = CreateOp ->
             {[Idle EXCEPT !.op = op, !.doc = d] : d \in Docs}
      [] op \in IdOps ->
             {[Idle EXCEPT !.op = op, !.hasId = TRUE, !.articleId = i, !.body = b] :
                 i \in 0..MaxArticles,
                 b \in IF op \in UpdateOps THEN Bodies ELSE {NoBody}}
      [] op \in TitleOps ->
             {[Idle EXCEPT !.op = op, !.key = k, !.body = b] :
                 k \in TitleKeys, b \in IF op \in UpdateOps THEN Bodies ELSE {NoBody}}
      [] OTHER ->
             {[Idle EXCEPT !.op = op, !.key = k, !.body = b] :
                 k \in AuthorKeys, b \in IF op \in UpdateOps THEN Bodies ELSE {NoBody}}

\* A request reaches the router and takes the lowest free slot.
ArriveWith(r, H) ==
    /\ running = 0 /\ wire = <<>>
    /\ req[r].pc = "idle"
    /\ \A x \in 1..(r - 1) : req[x].pc # "idle"
    /\ \E op \in Ops : \E q \in Inputs(op) : \E h \in H :
           req' = [req EXCEPT ![r] = [q EXCEPT !.hdr = h, !.pc = "authenticate"]]
    /\ running' = r
    /\ wire' = <<>>
    /\ UNCHANGED <<wsVars, storeVars, now>>

Arrive(r) == ArriveWith(r, CoreHeaders)

ArriveAny(r) == ArriveWith(r, AllHeaders)

\* Faulty variant: the role is read from the holder's stored record, and a
\* deleted holder is refused.
AuthenticateFromStore(r) ==
    /\ running = r
    /\ req[r].pc = "authenticate"
    /\ LET a == authenticate(req[r].hdr, now)
           known == a.next = 1 /\ a.user.userId \in DOMAIN users
                              /\ ~users[a.user.userId].deleted
           user == IF known THEN [a.user EXCEPT !.role = users[a.user.userId].role]
                   ELSE NoUser
       IN /\ req' = [req EXCEPT ![r].status = IF known THEN 0 ELSE 401,
                                ![r].user = user,
                                ![r].nAuth = @ + (IF known THEN 1 ELSE 0),
                                ![r].pc = IF known THEN "isAdmin" ELSE "done"]
          /\ running' = r
    /\ wire' = <<>>
    /\ UNCHANGED <<wsVars, storeVars, now>>

\* router.use(authenticate, ...)
Authenticate(r) ==
    /\ running = r
    /\ req[r].pc = "authenticate"
    /\ LET a == authenticate(req[r].hdr, now)
       IN /\ req' = [req EXCEPT ![r].status = a.status, ![r].user = a.user,
                                ![r].nAuth = @ + a.next,
                                ![r].pc = IF a.next = 1 THEN "isAdmin" ELSE "done"]
          /\ running' = r
    /\ wire' = <<>>
    /\ UNCHANGED <<wsVars, storeVars, now>>

\* router.use(..., isAdmin); then the route's own chain
IsAdmin(r) ==
    /\ running = r
    /\ req[r].pc = "isAdmin"
    /\ LET a == isAdmin(req[r].user)
           nxt == IF req[r].op = CreateOp THEN "upload"
                  ELSE IF req[r].op \in GatedOps THEN "isAuthorOrAdmin"
                  ELSE "handler"
       IN /\ req' = [req EXCEPT ![r].status = a.status, ![r].nAdmin = @ + a.next,
                                ![r].pc = IF a.next = 1 THEN nxt ELSE "done"]
          /\ running' = IF a.next = 1 /\ nxt = "upload" THEN 0 ELSE r
    /\ wire' = <<>>
    /\ UNCHANGED <<wsVars, storeVars, now>>

\* upload.single('image'): the multipart body is read off the socket
Upload(r) ==
    /\ running = 0 /\ wire = <<>>
    /\ req[r].pc = "upload"
    /\ req' = [req EXCEPT ![r].pc = "handler"]
    /\ running' = r
    /\ wire' = <<>>
    /\ UNCHANGED <<wsVars, storeVars, now>>

\* the route's isAuthorOrAdmin
IsAuthorOrAdmin(r) ==
    /\ running = r
    /\ req[r].pc = "isAuthorOrAdmin"
    /\ \E dbOk \in BOOLEAN :
         LET a == isAuthorOrAdmin(req[r].user, req[r].hasId, req[r].articleId,
                                  articles, dbOk)
         IN /\ a.reads = 0 => dbOk
            /\ req' = [req EXCEPT ![r].status = a.status, ![r].nGate = @ + a.next,
                                  ![r].pc = IF a.next = 1 THEN "handler"
                                            ELSE IF a.threw THEN "hung" ELSE "done"]
            /\ running' = IF a.threw THEN 0 ELSE r
    /\ wire' = <<>>
    /\ UNCHANGED <<wsVars, storeVars, now>>

\* isAuthorOrAdmin as the module exports it, entered by the request of any
\* authenticated user (no isAdmin in front of it)
GateEnter(r) ==
    /\ running = 0 /\ wire = <<>>
    /\ req[r].pc = "idle"
    /\ \E op \in GatedOps : \E q \in Inputs(op) : \E u \in UserIds :
          LET token == loginToken(u, users[u].role, now)
              a == authenticate(<<"Bearer", SP, token>>, now)
          IN /\ a.next = 1
             /\ req' = [req EXCEPT ![r] =
                           [q EXCEPT !.hdr = <<"Bearer", SP, token>>, !.user = a.user,
                                     !.nAuth = 1, !.pc = "isAuthorOrAdmin"]]
    /\ running' = r
    /\ UNCHANGED <<wsVars, wire, storeVars, now>>

\* next() has handed the request on to the route's handler
GateLeave(r) ==
    /\ running = r
    /\ req[r].pc = "handler"
    /\ req' = [req EXCEPT ![r] = Idle]
    /\ running' = 0
    /\ UNCHANGED <<wsVars, wire, storeVars, now>>

\* the handler up to its first store call
HandlerStart(r) ==
    /\ running = r
    /\ req[r].pc = "handler"
    /\ req[r].op \in Ops
    /\ LET q == req[r]
           missing == q.op = CreateOp /\ (q.doc.title = <<>> \/ q.doc.author = <<>>)
           stop == missing \/ ServiceRejects(q)
       IN /\ req' = [req EXCEPT ![r].ran = TRUE,
                                ![r].status = IF missing THEN 400
                                              ELSE IF stop THEN ErrorStatus(q.op) ELSE 0,
                                ![r].pc = IF stop THEN "done" ELSE "awaitWrite"]
          /\ running' = IF stop THEN r ELSE 0
    /\ wire' = <<>>
    /\ UNCHANGED <<wsVars, storeVars, now>>

\* Faulty variant: the count is not looked at.
AfterWriteNoCheck(op, count) ==
    IF op \in {CreateOp, "updateArticle"} THEN "awaitReread" ELSE "broadcast"

\* Faulty variant: the response goes out in place of the broadcast.
AfterWriteRespondFirst(op, count) ==
    IF op # CreateOp /\ count = 0 THEN "notFound"
    ELSE IF op \in {CreateOp, "updateArticle"} THEN "awaitReread"
    ELSE "respond"

\* the statement after the store write: where the handler goes with `count`
AfterWrite(op, count) ==
    IF op # CreateOp /\ count = 0 THEN "notFound"
    ELSE IF op \in {CreateOp, "updateArticle"} THEN "awaitReread"
    ELSE "broadcast"

\* The store answers the handler's write (dbOk) or fails it; on an answer the
\* handler checks the count and either replies 404, re-reads the article
\* (createArticle, updateArticle) or goes on to the broadcast.
WriteReturns(r, dbOk) ==
    /\ running = 0 /\ wire = <<>>
    /\ req[r].pc = "awaitWrite"
    /\ req[r].op = CreateOp /\ dbOk => nextId <= MaxArticles
    /\ LET q == req[r]
           w == StoreWrite(q, articles, nextId)
           to == AfterWrite(q.op, w.count)
       IN IF dbOk
          THEN /\ articles' = w.store
               /\ nextId' = IF q.op = CreateOp THEN nextId + 1 ELSE nextId
               /\ req' = [req EXCEPT ![r].written = "returned", ![r].count = w.count,
                                     ![r].articleId = IF q.op = CreateOp THEN nextId ELSE @,
                                     ![r].status = IF to = "notFound" THEN 404 ELSE 0,
                                     ![r].pc = IF to = "notFound" THEN "done" ELSE to]
               /\ running' = IF to = "awaitReread" THEN 0 ELSE r
          ELSE /\ req' = [req EXCEPT ![r].written = "threw",
                                     ![r].status = ErrorStatus(q.op), ![r].pc = "done"]
               /\ running' = r
               /\ UNCHANGED <<articles, nextId>>
    /\ wire' = <<>>
    /\ UNCHANGED <<wsVars, users, now>>

\* getArticleByIdService after the write answers or fails
RereadReturns(r, dbOk) ==
    /\ running = 0 /\ wire = <<>>
    /\ req[r].pc = "awaitReread"
    /\ req' = [req EXCEPT ![r].status = IF dbOk THEN 0 ELSE ErrorStatus(req[r].op),
                          ![r].pc = IF dbOk THEN "broadcast" ELSE "done"]
    /\ running' = r
    /\ wire' = <<>>
    /\ UNCHANGED <<wsVars, storeVars, now>>

\* Faulty variant: the pass drops the handles it finds not open.
DoBroadcastPruning(r, F) ==
    /\ running = r
    /\ req[r].pc = "broadcast"
    /\ F \subseteq {c \in SeqToSet(clients) : readyState[c] = "OPEN"}
    /\ wire' = broadcast(clients, readyState, Event(r, req[r]), F)
    /\ clients' = SelectSeq(clients, LAMBDA c : readyState[c] = "OPEN")
    /\ req' = [req EXCEPT ![r].bcasts = @ + 1, ![r].pc = "respond"]
    /\ UNCHANGED <<readyState, storeVars, now, running>>

\* if (req.app.locals.wsBroadcast) req.app.locals.wsBroadcast({...})
DoBroadcast(r, F) ==
    /\ running = r
    /\ req[r].pc = "broadcast"
    /\ F \subseteq {c \in SeqToSet(clients) : readyState[c] = "OPEN"}
    /\ wire' = broadcast(clients, readyState, Event(r, req[r]), F)
    /\ req' = [req EXCEPT ![r].bcasts = @ + 1, ![r].pc = "respond"]
    /\ UNCHANGED <<wsVars, storeVars, now, running>>

\* return res.status(201).json(...) / res.json(...)
Respond(r) ==
    /\ running = r
    /\ req[r].pc = "respond"
    /\ req' = [req EXCEPT ![r].status = SuccessStatus(req[r].op), ![r].pc = "done"]
    /\ UNCHANGED <<wsVars, wire, storeVars, now, running>>

\* The continuation that answered the request ends; the request's record is
\* dropped (pc "done" is the state in which its whole record can be read).
Retire(r) ==
    /\ running = r
    /\ req[r].pc = "done"
    /\ req' = [req EXCEPT ![r] = Idle]
    /\ running' = 0
    /\ wire' = <<>>
    /\ UNCHANGED <<wsVars, storeVars, now>>

\* time passes
Tick ==
    /\ running = 0 /\ wire = <<>>
    /\ now < MaxTick * TickMinutes
    /\ now' = now + TickMinutes
    /\ wire' = <<>>
    /\ UNCHANGED <<wsVars, req, storeVars, running>>

\* ------------------------------------------------------------ public reads
\* article.routes.js declares the GET routes ahead of
\* router.use(authenticate, isAdmin): no middleware runs in front of them.
ReadOps == {"getAllArticles", "getArticleById", "getArticlesByTitle",
            "getArticlesByAuthor"}

\* the headers a reader may send: none, the administrator's, a forged one
ReadHeaders == CoreHeaders \cup BearerHeaders({ForgedToken})

ReadInputs(op) ==
    CASE op = "getAllArticles" -> {[Idle EXCEPT !.op = op]}
      [] op = "getArticleById" ->
             {[Idle EXCEPT !.op = op, !.hasId = TRUE, !.articleId = i] :
                 i \in 0..MaxArticles}
      [] op = "getArticlesByTitle" -> {[Idle EXCEPT !.op = op, !.key = k] : k \in TitleKeys}
      [] OTHER -> {[Idle EXCEPT !.op = op, !.key = k] : k \in AuthorKeys}

\* the documents a read handler is handed by the model layer
ReadMatches(q, store) ==
    CASE q.op = "getAllArticles" -> DOMAIN store
      [] q.op = "getArticleById" -> {q.articleId} \cap DOMAIN store
      [] q.op = "getArticlesByTitle" -> MatchTitle(store, q.key)
      [] OTHER -> MatchAuthor(store, q.key)

\* the answer once the store has answered: getAllArticles answers its page
\* whatever it holds, the others 404 on nothing found
ReadStatus(q, store) ==
    IF q.op # "getAllArticles" /\ ReadMatches(q, store) = {} THEN 404 ELSE 200

\* A GET request reaches its handler; getArticleById's new ObjectId throws on
\* a malformed id, which its catch answers 500 (the error's message does not
\* contain 'BSONError').
ReadArrive(r) ==
    /\ running = 0 /\ wire = <<>>
    /\ req[r].pc = "idle"
    /\ \E op \in ReadOps : \E q \in ReadInputs(op) : \E h \in ReadHeaders :
          LET threw == op = "getArticleById" /\ ~ObjectIdIsValid(q.articleId)
          IN /\ req' = [req EXCEPT ![r] =
                           [q EXCEPT !.hdr = h, !.ran = TRUE,
                                     !.status = IF threw THEN 500 ELSE 0,
                                     !.pc = IF threw THEN "done" ELSE "awaitRead"]]
             /\ running' = IF threw THEN r ELSE 0
    /\ UNCHANGED <<wsVars, wire, storeVars, now>>

\* the store answers the read (dbOk) or fails it
ReadReturns(r, dbOk) ==
    /\ running = 0 /\ wire = <<>>
    /\ req[r].pc = "awaitRead"
    /\ req' = [req EXCEPT ![r].reads = 1,
                          ![r].count = IF dbOk THEN Cardinality(ReadMatches(req[r], articles))
                                       ELSE 0,
                          ![r].status = IF dbOk THEN ReadStatus(req[r], articles) ELSE 500,
                          ![r].pc = "done"]
    /\ running' = r
    /\ UNCHANGED <<wsVars, wire, storeVars, now>>

\* ------------------------------------------------------------------ search
\* A query-string parameter is a string (a sequence of characters), <<>> when
\* it is absent.
Digits == <<"0", "1", "2", "3", "4", "5", "6", "7", "8", "9">>
IsDigit(ch) == \E d \in DOMAIN Digits : Digits[d] = ch
DigitValue(ch) == (CHOOSE d \in DOMAIN Digits : Digits[d] = ch) - 1

RECURSIVE ParseDigits(_, _)
ParseDigits(s, acc) ==
    IF s = <<>> \/ ~IsDigit(Head(s)) THEN acc
    ELSE ParseDigits(Tail(s), Len(Digits) * acc + DigitValue(Head(s)))

NaN == [nan |-> TRUE, value |-> 0]

\* parseInt(string): leading blanks skipped, an optional sign, then the
\* longest run of digits; NaN when there is none
parseInt(s) ==
    LET t == TrimLeft(s)
        signed == t # <<>> /\ Head(t) \in {"-", "+"}
        u == IF signed THEN Tail(t) ELSE t
    IN IF u = <<>> \/ ~IsDigit(Head(u)) THEN NaN
       ELSE [nan |-> FALSE,
             value |-> IF Head(t) = "-" THEN 0 - ParseDigits(u, 0)
                       ELSE ParseDigits(u, 0)]

\* parseInt(x) || d: NaN and 0 are falsy
OrDefault(n, d) == IF n.nan \/ n.value = 0 THEN d ELSE n.value

\* searchArticlesService(query, page, limit) up to its model call: the error
\* it throws, or "none"
searchArticlesService(query, page, limit) ==
    IF query = <<>> \/ Len(Trim(query)) < MinQueryLen THEN "query"
    ELSE IF page < 1 THEN "page"
    ELSE IF limit < 1 \/ limit > MaxLimit THEN "limit"
    ELSE "none"

\* the controller's catch: only the query message is answered 400
CatchStatus(error) == IF error = "query" THEN 400 ELSE 500

\* the controller up to the model call: status 0 when the model is called
searchArticles(q, rawPage, rawLimit) ==
    LET page == OrDefault(parseInt(rawPage), DefaultPage)
        limit == OrDefault(parseInt(rawLimit), DefaultLimit)
        error == searchArticlesService(q, page, limit)
    IN IF q = <<>> \/ Len(Trim(q)) < MinQueryLen THEN 400
       ELSE IF error # "none" THEN CatchStatus(error)
       ELSE 0

\* the documents the model's $or of regular expressions matches
SearchMatches(store, query) ==
    {i \in DOMAIN store : \/ RegexMatchI(query, store[i].title)
                          \/ RegexMatchI(query, store[i].author)}

Queries == {<<>>, <<"t">>, <<"a", SP>>, <<SP, "a", "b">>, <<"z", "z">>}
PageParams == {<<>>, <<"0">>, <<"-", "1">>}
LimitParams ==
    {<<>>, <<"0">>, <<"5", "x">>, <<"1", "0", "0">>, <<"1", "0", "1">>, <<"-", "1">>}

\* GET /search (public): the controller runs up to its answer or to the
\* model call
SearchArrive(r) ==
    /\ running = 0 /\ wire = <<>>
    /\ req[r].pc = "idle"
    /\ \E q \in Queries, rawPage \in PageParams, rawLimit \in LimitParams :
          LET status == searchArticles(q, rawPage, rawLimit)
          IN /\ req' = [req EXCEPT ![r] =
                           [Idle EXCEPT !.op = "searchArticles", !.key = q,
                                        !.page = rawPage, !.limit = rawLimit,
                                        !.ran = TRUE, !.status = status,
                                        !.pc = IF status = 0 THEN "awaitSearch"
                                               ELSE "done"]]
             /\ running' = IF status = 0 THEN 0 ELSE r
    /\ UNCHANGED <<wsVars, wire, storeVars, now>>

\* countDocuments and find answer (dbOk) or the first of them fails
SearchReturns(r, dbOk) ==
    /\ running = 0 /\ wire = <<>>
    /\ req[r].pc = "awaitSearch"
    /\ LET total == Cardinality(SearchMatches(articles, Trim(req[r].key)))
       IN req' = [req EXCEPT ![r].reads = IF dbOk THEN 2 ELSE 1,
                             ![r].count = IF dbOk THEN total ELSE 0,
                             ![r].status = IF ~dbOk THEN CatchStatus("store")
                                           ELSE IF total = 0 THEN 404 ELSE 200,
                             ![r].pc = "done"]
    /\ running' = r
    /\ UNCHANGED <<wsVars, wire, storeVars, now>>

\* --------------------------------------------------------------- user store
\* The users collection: a function from the ids ever inserted to documents
\* [username, email, password, role, deleted]; a deleted document stays as a
\* tombstone so that an ObjectId is never handed out twice.  A request body is
\* a record of the same four fields, a missing one being NoName / Undefined.
NoName == <<Undefined>>

\* bcrypt.hash(text, 10), and a password stored as it was sent
BcryptHash(text) == [alg |-> "bcrypt", text |-> text]
Plain(text) == [alg |-> "plain", text |-> text]

\* bcrypt.compare(text, stored)
BcryptCompare(text, stored) == stored.alg = "bcrypt" /\ stored.text = text

UserDoc(username, email, password, role) ==
    [username |-> username, email |-> email, password |-> password,
     role |-> role, deleted |-> FALSE]

Tombstone ==
    [username |-> NoName, email |-> Undefined, password |-> BcryptHash(Undefined),
     role |-> Undefined, deleted |-> TRUE]

Live(store) == {u \in DOMAIN store : ~store[u].deleted}

\* new ObjectId(userId) throws on a malformed id (0 in the model)
NewObjectIdThrows(userId) == userId \notin UserIds

\* db.collection('users').createIndex({ email: 1 }, { unique: true }): the
\* one unique index of the collection
EmailTaken(store, email, self) ==
    \E u \in Live(store) \ self : store[u].email = email

\* the document findOne / updateOne / deleteOne act on: the first match
FirstOf(S) == IF S = {} THEN 0 ELSE CHOOSE u \in S : \A v \in S : u <= v

ByEmail(store, email) == {u \in Live(store) : store[u].email = email}
ByUsername(store, username) == {u \in Live(store) : store[u].username = username}

\* createUser(userData): insertOne
createUser(store, id, doc) ==
    IF EmailTaken(store, doc.email, {})
    THEN [threw |-> TRUE, store |-> store]
    ELSE [threw |-> FALSE,
          store |-> [u \in DOMAIN store \cup {id} |->
                        IF u = id THEN doc ELSE store[u]]]

\* registerUser(userData): bcrypt.hash throws on a missing password
registerUser(store, id, body) ==
    IF body.password = Undefined
    THEN [threw |-> TRUE, store |-> store]
    ELSE createUser(store, id,
             UserDoc(body.username, body.email, BcryptHash(body.password),
                     IF body.role = Undefined THEN "member" ELSE body.role))

\* loginUser(email, password): the token, or Undefined for null
loginUser(store, email, password, at) ==
    LET u == FirstOf(ByEmail(store, email))
    IN IF u = 0 THEN Undefined
       ELSE IF ~BcryptCompare(password, store[u].password) THEN Undefined
       ELSE loginToken(u, store[u].role, at)

\* { $set: updateData }: the body's fields overwritten as they were sent
SetUser(doc, body) ==
    [username |-> IF body.username = NoName THEN doc.username ELSE body.username,
     email |-> IF body.email = Undefined THEN doc.email ELSE body.email,
     password |-> IF body.password = Undefined THEN doc.password
                  ELSE Plain(body.password),
     role |-> IF body.role = Undefined THEN doc.role ELSE body.role,
     deleted |-> FALSE]

\* updateOne(filter, { $set: { ...updateData, updatedAt } }) on the matches S
updateOne(store, S, body) ==
    LET u == FirstOf(S)
    IN IF u = 0 THEN [threw |-> FALSE, count |-> 0, store |-> store]
       ELSE IF body.email # Undefined /\ EmailTaken(store, body.email, {u})
       THEN [threw |-> TRUE, count |-> 0, store |-> store]
       ELSE [threw |-> FALSE, count |-> 1,
             store |-> [store EXCEPT ![u] = SetUser(store[u], body)]]

\* authService.updateUser and the model's updateUserById: the model hashes a
\* supplied password through `bcrypt`, a name its module never binds, so the
\* call throws a ReferenceError before the store is touched
updateUserById(store, userId, body) ==
    IF body.password # Undefined \/ NewObjectIdThrows(userId)
    THEN [threw |-> TRUE, count |-> 0, store |-> store]
    ELSE updateOne(store, {userId} \cap Live(store), body)

updateUserByEmail(store, email, body) == updateOne(store, ByEmail(store, email), body)

updateUserByUsername(store, username, body) ==
    updateOne(store, ByUsername(store, username), body)

\* deleteOne(filter) on the matches S
deleteOne(store, S) ==
    LET u == FirstOf(S)
    IN IF u = 0 THEN [count |-> 0, store |-> store]
       ELSE [count |-> 1, store |-> [store EXCEPT ![u] = Tombstone]]

\* request bodies of POST /register and PUT /users/...
UserBody(username, email, password, role) ==
    [username |-> username, email |-> email, password |-> password, role |-> role]

RegisterBodies ==
    {UserBody(AL, "new@x", "pw", Undefined),
     UserBody(BO, "new@x", "pw", "editor"),
     UserBody(BO, "al@x", "pw", "author"),
     UserBody(BO, "bo@x", Undefined, Undefined)}

IdBodies ==
    {UserBody(NoName, Undefined, Undefined, "member"),
     UserBody(NoName, "al@x", Undefined, Undefined),
     UserBody(NoName, Undefined, "pn", Undefined)}

KeyBodies == {UserBody(AL, Undefined, "pn", "editor")}

Emails == {"ad@x", "al@x", "new@x"}
Usernames == {AD, AL, BO}
Passwords == {"pw", "pn"}

\* the administrator's token, issued at start-up time
AdminHeader == <<"Bearer", SP, loginToken(1, "admin", 0)>>

\* authenticate, isAdmin in front of the user-management routes
AdminPasses ==
    LET a == authenticate(AdminHeader, now)
    IN a.next = 1 /\ isAdmin(a.user).next = 1

\* POST /register
Register(body) ==
    /\ running = 0 /\ wire = <<>>
    /\ Cardinality(DOMAIN users) < MaxUsers
    /\ users' = registerUser(users, Cardinality(DOMAIN users) + 1, body).store
    /\ UNCHANGED <<wsVars, wire, req, articles, nextId, now, running>>

\* POST /login: the client of slot r keeps the token it is handed
Login(r, email, password) ==
    /\ running = 0 /\ wire = <<>>
    /\ req[r].pc = "idle"
    /\ LET token == loginUser(users, email, password, now)
       IN /\ token # Undefined
          /\ req' = [req EXCEPT ![r] = [Idle EXCEPT !.hdr = <<"Bearer", SP, token>>,
                                                    !.pc = "holding"]]
    /\ UNCHANGED <<wsVars, wire, storeVars, now, running>>

\* the client sends GET /users with the token it holds
Send(r) ==
    /\ running = 0 /\ wire = <<>>
    /\ req[r].pc = "holding"
    /\ req' = [req EXCEPT ![r].op = "getAllUsers", ![r].pc = "authenticate"]
    /\ running' = r
    /\ UNCHANGED <<wsVars, wire, storeVars, now>>

\* GET /users behind authenticate, isAdmin
GetAllUsers(r) ==
    /\ running = r
    /\ req[r].pc = "handler"
    /\ req[r].op = "getAllUsers"
    /\ req' = [req EXCEPT ![r].ran = TRUE, ![r].status = 200, ![r].pc = "done"]
    /\ UNCHANGED <<wsVars, wire, storeVars, now, running>>

\* The user-management routes below sit behind authenticate, isAdmin; a
\* request that leaves the collection as it was is not a step.

\* PUT /users/id/:userId
UpdateUserById(userId, body) ==
    /\ running = 0 /\ wire = <<>>
    /\ LET res == updateUserById(users, userId, body)
       IN /\ res.store # users
          /\ AdminPasses
          /\ users' = res.store
    /\ UNCHANGED <<wsVars, wire, req, articles, nextId, now, running>>

\* PUT /users/email/:email
UpdateUserByEmail(email, body) ==
    /\ running = 0 /\ wire = <<>>
    /\ LET res == updateUserByEmail(users, email, body)
       IN /\ res.store # users
          /\ AdminPasses
          /\ users' = res.store
    /\ UNCHANGED <<wsVars, wire, req, articles, nextId, now, running>>

\* PUT /users/username/:username
UpdateUserByUsername(username, body) ==
    /\ running = 0 /\ wire = <<>>
    /\ LET res == updateUserByUsername(users, username, body)
       IN /\ res.store # users
          /\ AdminPasses
          /\ users' = res.store
    /\ UNCHANGED <<wsVars, wire, req, articles, nextId, now, running>>

\* DELETE /users/id/:userId
DeleteUserById(userId) ==
    /\ running = 0 /\ wire = <<>>
    /\ ~NewObjectIdThrows(userId)
    /\ LET res == deleteOne(users, {userId} \cap Live(users))
       IN /\ res.store # users
          /\ AdminPasses
          /\ users' = res.store
    /\ UNCHANGED <<wsVars, wire, req, articles, nextId, now, running>>

\* DELETE /users/email/:email
DeleteUserByEmail(email) ==
    /\ running = 0 /\ wire = <<>>
    /\ LET res == deleteOne(users, ByEmail(users, email))
       IN /\ res.store # users
          /\ AdminPasses
          /\ users' = res.store
    /\ UNCHANGED <<wsVars, wire, req, articles, nextId, now, running>>

\* DELETE /users/username/:username
DeleteUserByUsername(username) ==
    /\ running = 0 /\ wire = <<>>
    /\ LET res == deleteOne(users, ByUsername(users, username))
       IN /\ res.store # users
          /\ AdminPasses
          /\ users' = res.store
    /\ UNCHANGED <<wsVars, wire, req, articles, nextId, now, running>>

\* ------------------------------------------------------------ specifications
\* the accounts of the running system, each registered with the password "pw"
Users0 ==
    [u \in UserIds |->
        CASE u = 1 -> UserDoc(AD, "ad@x", BcryptHash("pw"), "admin")
          [] u = 2 -> UserDoc(AL, "al@x", BcryptHash("pw"), "author")
          [] u = 3 -> UserDoc(ME, "me@x", BcryptHash("pw"), "member")
          [] OTHER -> UserDoc(BO, "bo@x", BcryptHash("pw"), "editor")]

Init ==
    /\ clients = <<>>
    /\ readyState = [c \in Conns |-> "NONE"]
    /\ wire = <<>>
    /\ req = [r \in Reqs |-> Idle]
    /\ articles = [i \in {1} |-> [author |-> AL, title |-> <<"a", "b">>]]
    /\ nextId = 2
    /\ users = Users0
    /\ now = 0
    /\ running = 0

WsNext ==
    \/ \E c \in Conns :
          \/ \E fail \in BOOLEAN : Connection(c, fail)
          \/ \E data \in {"ping", "other", "garbage"}, fail \in BOOLEAN : Message(c, data, fail)
          \/ BeginClose(c)
          \/ ErrorEvent(c)
          \/ CloseEvent(c)
    \/ EndTurn

HandlerNext(r) ==
    \/ Authenticate(r)
    \/ IsAdmin(r)
    \/ Upload(r)
    \/ IsAuthorOrAdmin(r)
    \/ HandlerStart(r)
    \/ \E dbOk \in BOOLEAN : WriteReturns(r, dbOk)
    \/ \E dbOk \in BOOLEAN : RereadReturns(r, dbOk)
    \/ \E F \in SUBSET Conns : DoBroadcast(r, F)
    \/ Respond(r)
    \/ Retire(r)

\* the WebSocket side and the HTTP side serving one request at a time, at
\* one instant of the clock
Next ==
    \/ WsNext
    \/ Arrive(1)
    \/ HandlerNext(1)

Spec == Init /\ [][Next]_vars

\* the same with up to MaxReq requests in flight at once
NextPar ==
    \/ WsNext
    \/ \E r \in Reqs : Arrive(r) \/ HandlerNext(r)

SpecPar == Init /\ [][NextPar]_vars

\* one request at a time through the HTTP side alone, under every header
\* shape and a moving clock
NextGate ==
    \/ ArriveAny(1)
    \/ HandlerNext(1)
    \/ Tick

SpecGate == Init /\ [][NextGate]_vars

\* the user-management routes and one client that logs in and later presents
\* its token to GET /users; the collection starts with the administrator
\* alone
InitUsers ==
    /\ clients = <<>>
    /\ readyState = [c \in Conns |-> "NONE"]
    /\ wire = <<>>
    /\ req = [r \in Reqs |-> Idle]
    /\ articles = [i \in {1} |-> [author |-> AL, title |-> <<"a", "b">>]]
    /\ nextId = 2
    /\ users = [u \in {1} |-> Users0[u]]
    /\ now = 0
    /\ running = 0

NextUsers ==
    \/ \E body \in RegisterBodies : Register(body)
    \/ \E email \in Emails, password \in Passwords : Login(1, email, password)
    \/ Send(1)
    \/ Authenticate(1)
    \/ IsAdmin(1)
    \/ GetAllUsers(1)
    \/ Retire(1)
    \/ \E userId \in 0..MaxUsers, body \in IdBodies : UpdateUserById(userId, body)
    \/ \E email \in Emails, body \in KeyBodies : UpdateUserByEmail(email, body)
    \/ \E username \in Usernames, body \in KeyBodies :
          UpdateUserByUsername(username, body)
    \/ \E userId \in 0..MaxUsers : DeleteUserById(userId)
    \/ \E email \in Emails : DeleteUserByEmail(email)
    \/ \E username \in Usernames : DeleteUserByUsername(username)
    \/ Tick

SpecUsers == InitUsers /\ [][NextUsers]_vars

\* search requests, one at a time or MaxReq at once, over a fixed collection
NextSearch ==
    \E r \in Reqs :
        \/ SearchArrive(r)
        \/ \E dbOk \in BOOLEAN : SearchReturns(r, dbOk)
        \/ Retire(r)

SpecSearch == Init /\ [][NextSearch]_vars

\* the public GET routes of the articles router, under every reader
NextRead ==
    \E r \in Reqs :
        \/ ReadArrive(r)
        \/ \E dbOk \in BOOLEAN : ReadReturns(r, dbOk)
        \/ Retire(r)

SpecRead == Init /\ [][NextRead]_vars

\* the isAuthorOrAdmin middleware on its own, under the requests of every role
NextAuthorGate ==
    \E r \in Reqs :
        \/ GateEnter(r)
        \/ IsAuthorOrAdmin(r)
        \/ GateLeave(r)
        \/ Retire(r)

SpecAuthorGate == Init /\ [][NextAuthorGate]_vars

\* ------------------------------------------------------------------ claims
\* the connections a broadcast pass serves: registered and OPEN
RegisteredOpen == {c \in SeqToSet(clients) : readyState[c] = "OPEN"}

\* the frames on the wire that carry an article event
ArticleFrames == {i \in DOMAIN wire : wire[i].msg.of.op # "none"}

\* C1: in every article mutation handler the broadcast is invoked only after
\* that request's store write has returned, and never in a request whose write
\* threw or reported a count of 0; so every article event on the wire is of a
\* mutation that applied.
C1_BroadcastOnlyAfterAppliedWrite ==
    /\ \A r \in Reqs :
          (req[r].bcasts > 0 \/ req[r].pc \in {"broadcast", "respond"})
              => req[r].written = "returned" /\ req[r].count > 0
    /\ \A i \in ArticleFrames :
          LET r == wire[i].msg.of.req
          IN /\ r \in Reqs
             /\ req[r].op = wire[i].msg.of.op
             /\ req[r].written = "returned"
             /\ req[r].count > 0

\* a delete that applied has been broadcast to an open connection
C1_Witness ==
    \E r \in Reqs :
        /\ req[r].op \in DeleteOps
        /\ req[r].pc = "respond"
        /\ req[r].bcasts = 1
        /\ ArticleFrames # {}

\* C2: a broadcast call for a mutation occurs if and only if its store write
\* reported a non-zero count: every request whose write applied has made
\* exactly one broadcast call by the time it is answered, also when the
\* re-read after the write fails.
C2_BroadcastIffWriteApplied ==
    \A r \in Reqs :
        req[r].pc = "done"
            => /\ req[r].bcasts <= 1
               /\ req[r].bcasts = 1 <=> (req[r].written = "returned" /\ req[r].count > 0)

\* the username stored for the requester a token names
Username(user) == users[user.userId].username

\* C3: a request with a valid token of role author that targets one article by
\* id is rejected with 403, its handler not run, when the article's author
\* differs from the requester's username, and reaches the mutation handler
\* when the two are equal.
C3_AuthorOwnershipDecides ==
    \A r \in Reqs :
        (/\ req[r].pc = "done"
         /\ req[r].user.role = "author"
         /\ req[r].op \in IdOps
         /\ req[r].articleId \in DOMAIN articles)
            => IF articles[req[r].articleId].author = Username(req[r].user)
               THEN req[r].ran
               ELSE req[r].status = 403 /\ ~req[r].ran

\* C4: under isAdmin a request passes on exactly when the verified token's
\* role is admin; for every other role, a missing one included, the answer is
\* 403 and next is not called.
C4_AdminOnly ==
    /\ \A role \in Roles \cup {Undefined, ""} :
          LET a == isAdmin([NoUser EXCEPT !.role = role])
          IN IF role = "admin" THEN a.next = 1 /\ a.status = 0
             ELSE a.next = 0 /\ a.status = 403
    /\ \A r \in Reqs :
          (req[r].nAuth = 1 /\ req[r].pc # "isAdmin")
              => IF req[r].user.role = "admin" THEN req[r].nAdmin = 1
                 ELSE /\ req[r].nAdmin = 0
                      /\ req[r].status = 403
                      /\ req[r].pc = "done"
                      /\ ~req[r].ran

\* an editor's and an admin's request have both met isAdmin
C4_Witness ==
    \E r \in Reqs :
        /\ req[r].user.role = "editor"
        /\ req[r].pc = "done"
        /\ req[r].status = 403
        /\ req[r].nAdmin = 0

\* a header of the form `Bearer <token>`
IsBearerForm(h) == Len(h) = 3 /\ h[1] = "Bearer" /\ h[2] = SP /\ h[3] # SP

\* C5: on a route guarded by authenticate, a header that is absent or not of
\* the form `Bearer <token>` is answered 401 without next; a token that fails
\* verification is answered 401; only a token that verifies has its payload
\* attached and next called, once.
C5_BearerOrUnauthorized ==
    \A r \in Reqs :
        LET q == req[r]
        IN /\ q.nAuth <= 1
           /\ q.pc = "isAdmin"
                 => /\ IsBearerForm(q.hdr)
                    /\ verifyToken(q.hdr[3], now).ok
                    /\ q.user = verifyToken(q.hdr[3], now).payload
                    /\ q.nAuth = 1
           /\ (q.pc = "done" /\ q.nAuth = 0)
                 => /\ q.status = 401
                    /\ q.user = NoUser
                    /\ IsBearerForm(q.hdr) => ~verifyToken(q.hdr[3], now).ok
           /\ (q.pc \notin {"idle", "authenticate"} /\ ~IsBearerForm(q.hdr))
                 => q.nAuth = 0 /\ q.status = 401

\* the frames on the wire that carry message m to connection c
Copies(c, m) == {i \in DOMAIN wire : wire[i].to = c /\ wire[i].msg = m}

\* C6: at every broadcast call, each connection registered before the call
\* and open at it is sent exactly one copy of the event, however many others
\* are registered and whether or not a send to another one fails.
C6_ExactlyOneCopy ==
    \A r \in Reqs :
        req[r].pc = "respond"
            => \A c \in RegisteredOpen : Cardinality(Copies(c, Event(r, req[r]))) = 1

\* two open connections served in one pass, the frame to the first one lost
C6_Witness ==
    \E r \in Reqs :
        /\ req[r].pc = "respond"
        /\ Cardinality(RegisteredOpen) = 2
        /\ Len(wire) = 2
        /\ wire[1].lost /\ ~wire[2].lost

\* C7: a connection registered after a broadcast has completed gets no copy
\* of that event: registration sends it system.welcome and nothing else,
\* nothing is ever sent to a connection not yet accepted, and an article
\* frame is always the event of the broadcast under way.
C7_NoReplayOnRegistration ==
    [][ /\ \A c \in Conns :
              /\ (readyState[c] = "NONE" /\ readyState'[c] # "NONE")
                    => /\ Len(wire') = 1
                       /\ wire'[1].to = c
                       /\ wire'[1].msg = Welcome
              /\ readyState'[c] = "NONE" => \A i \in DOMAIN wire' : wire'[i].to # c
        /\ wire' # wire
              => \A i \in DOMAIN wire' :
                    wire'[i].msg.of.op # "none"
                        => /\ running' \in Reqs
                           /\ req[running'].pc = "broadcast"
                           /\ wire'[i].msg = Event(running', req'[running']) ]_vars

\* the second connection registers after the deletion of article 1 was
\* broadcast to the first: its turn carries the welcome only
C7_Witness ==
    /\ 1 \notin DOMAIN articles
    /\ readyState[1] = "OPEN"
    /\ wire = welcomeFrames(2, FALSE)

\* C8: once a connection's close or error event has been handled it is out of
\* the registry, and every broadcast from then on sends it nothing, while the
\* connections still registered and open are each sent the event.
C8_UnregisteredGetNothing ==
    /\ \A c \in Conns : readyState[c] = "CLOSED" => c \notin SeqToSet(clients)
    /\ \A i \in ArticleFrames : wire[i].to \in SeqToSet(clients)
    /\ \A r \in Reqs :
          req[r].pc = "respond" => {wire[i].to : i \in DOMAIN wire} = RegisteredOpen

\* the second connection has closed and a broadcast serves the first alone
C8_Witness ==
    \E r \in Reqs :
        /\ req[r].pc = "respond"
        /\ readyState[2] = "CLOSED"
        /\ readyState[1] = "OPEN"
        /\ {wire[i].to : i \in DOMAIN wire} = {1}

\* C9: a delivery failure for one connection inside broadcast does not reach
\* the caller: the pass goes on to the remaining open connections, a closed
\* consumer is skipped, and the request is answered with its success status.
C9_DeliveryFailureNotPropagated ==
    \A r \in Reqs :
        req[r].bcasts = 1
            => /\ req[r].pc \in {"respond", "done"}
               /\ \A c \in RegisteredOpen : \E i \in DOMAIN wire : wire[i].to = c
               /\ \A i \in DOMAIN wire : readyState[wire[i].to] = "OPEN"
               /\ req[r].pc = "done" => req[r].status = SuccessStatus(req[r].op)

\* a request answered with success although the first frame of its broadcast
\* was lost; the second connection was still served
C9_Witness ==
    \E r \in Reqs :
        /\ req[r].pc = "done"
        /\ req[r].status = SuccessStatus(req[r].op)
        /\ Len(wire) = 2
        /\ wire[1].lost /\ ~wire[2].lost

\* C10: in a successful mutation request the store write returns, then the
\* broadcast issues every send, then the success response is sent; the
\* response never precedes the sends.
C10_WriteBroadcastRespond ==
    [][ \A r \in Reqs :
           /\ req'[r].bcasts > req[r].bcasts
                 => /\ req[r].written = "returned"
                    /\ req[r].status = 0 /\ req'[r].status = 0
                    /\ \A c \in RegisteredOpen : \E i \in DOMAIN wire' : wire'[i].to = c
           /\ (req'[r].status # req[r].status /\ req'[r].status \in {200, 201})
                 => /\ req[r].bcasts = 1
                    /\ req[r].written = "returned"
                    /\ wire' = wire ]_vars

\* the success response of a create, sent with the frames of its broadcast
\* already on the wire
C10_Witness ==
    \E r \in Reqs :
        /\ req[r].op = CreateOp
        /\ req[r].pc = "done"
        /\ req[r].status = 201
        /\ req[r].written = "returned"
        /\ ArticleFrames # {}

\* C11: under isAuthorOrAdmin, an author's request that targets an article id
\* not in the store is answered 404 by the gate, before any ownership
\* comparison, and next is not called.
C11_MissingArticleNotFound ==
    \A r \in Reqs :
        (/\ req[r].pc = "done"
         /\ req[r].user.role = "author"
         /\ req[r].op \in IdOps
         /\ req[r].articleId \notin DOMAIN articles)
            => /\ req[r].status = 404
               /\ req[r].nGate = 0
               /\ ~req[r].ran

\* C12: an author's request without an article-id target (bulk update or
\* delete by title, bulk update by author) passes authorization and reaches
\* the bulk mutation handler, whoever authored the matched articles.
C12_AuthorBulkPasses ==
    \A r \in Reqs :
        (/\ req[r].pc = "done"
         /\ req[r].user.role = "author"
         /\ req[r].op \in GatedOps \ IdOps)
            => req[r].nGate = 1 /\ req[r].ran

\* C13: a ping from connection c makes the server send exactly one pong, to c
\* and to no other connection; a message of another type, or one that is not
\* JSON, makes it send nothing; the registry is left as it was.
C13_PongToSenderOnly ==
    [][ /\ \A c \in Conns, fail \in BOOLEAN :
              /\ messageFrames(c, "ping", fail) = <<Frame(c, Pong, fail)>>
              /\ messageFrames(c, "other", fail) = <<>>
              /\ messageFrames(c, "garbage", fail) = <<>>
        /\ (wire' # wire /\ \E i \in DOMAIN wire' : wire'[i].msg = Pong)
              => /\ Len(wire') = 1
                 /\ readyState[wire'[1].to] = "OPEN"
                 /\ clients' = clients
                 /\ readyState' = readyState ]_vars

\* a pong on the wire to the first of two registered open connections
C13_Witness ==
    /\ Cardinality(RegisteredOpen) = 2
    /\ wire = <<Frame(1, Pong, FALSE)>>

\* C14: system.welcome is sent exactly once per connection, when it is
\* registered, and to it alone: no already registered connection gets it and
\* no later broadcast or ping sends it again.
C14_WelcomeOncePerConnection ==
    [][ /\ \A c \in Conns :
              /\ readyState[c] # "NONE" => readyState'[c] # "NONE"
              /\ (readyState[c] = "NONE" /\ readyState'[c] # "NONE")
                    => Cardinality({i \in DOMAIN wire' :
                                       wire'[i].to = c /\ wire'[i].msg = Welcome}) = 1
        /\ wire' # wire
              => \A i \in DOMAIN wire' :
                    wire'[i].msg = Welcome
                        => /\ readyState[wire'[i].to] = "NONE"
                           /\ readyState'[wire'[i].to] = "OPEN" ]_vars

\* the second connection is welcomed while the first is registered and open
C14_Witness ==
    /\ 1 \in SeqToSet(clients)
    /\ readyState[1] = "OPEN"
    /\ \E fail \in BOOLEAN : wire = welcomeFrames(2, fail)

\* the requests that carry, in the documented form, a token signed by login
SignedBearer == {r \in Reqs : /\ IsBearerForm(req[r].hdr)
                              /\ \E t \in JwtClaims :
                                    JwtString(t) = req[r].hdr[3] /\ t.sig = "good"}

\* the claims inside the token of request r
HeldClaims(r) == CHOOSE t \in JwtClaims : JwtString(t) = req[r].hdr[3]

\* C15: a token issued at T with the one-hour expiry verifies at every time
\* before T + 60 minutes (T + 30, say) and fails, the request answered 401, at
\* every time after T + 60 minutes (T + 61, say).  A request stands at
\* isAdmin in the very turn in which authenticate verified its token, so the
\* clock read there is the one verification saw.
C15_OneHourExpiry ==
    \A r \in Reqs :
        (/\ req[r].pc = "isAdmin" \/ (req[r].pc = "done" /\ req[r].nAuth = 0)
         /\ r \in SignedBearer)
            => LET exp == HeldClaims(r).iat + ExpiresIn
               IN /\ req[r].pc = "isAdmin" => now < exp /\ req[r].user.exp = exp
                  /\ req[r].pc = "done" => now >= exp /\ req[r].status = 401

\* a token issued at 0 has been refused after more than an hour
C15_Witness ==
    \E r \in SignedBearer :
        /\ HeldClaims(r).iat = 0
        /\ now > ExpiresIn
        /\ req[r].pc = "done"
        /\ req[r].status = 401

\* C16: whether a token passes authenticate and the role check depends on the
\* token and the clock alone, never on the users collection: GET /users sent
\* with a token that login issued is answered 200 exactly when the role the
\* token was issued with is admin and the token has not expired, 403 when it
\* has not expired and carries another role, and 401 once it has expired,
\* whatever has happened to its holder's record since.
C16_TokenNotStore ==
    \A r \in Reqs :
        (req[r].op = "getAllUsers" /\ req[r].pc = "done")
            => LET t == HeldClaims(r)
                   fresh == now < t.iat + ExpiresIn
               IN /\ r \in SignedBearer
                  /\ req[r].status = 200 <=> (fresh /\ t.role = "admin")
                  /\ req[r].status = 403 <=> (fresh /\ t.role # "admin")
                  /\ req[r].status = 401 <=> ~fresh
                  /\ req[r].status \in {200, 403} => req[r].user.role = t.role

\* the administrator's token is accepted as an admin's after the record of
\* its holder was deleted or lost the admin role
C16_Witness ==
    \E r \in Reqs :
        /\ req[r].op = "getAllUsers" /\ req[r].pc = "done" /\ req[r].status = 200
        /\ LET u == HeldClaims(r).userId
           IN users[u].deleted \/ users[u].role # "admin"

\* C17: no record of the users collection holds a plaintext password: after
\* any sequence of register and update requests the stored password of every
\* user is a bcrypt hash.
C17_NoPlaintextPassword ==
    \A u \in Live(users) : users[u].password.alg = "bcrypt"

\* C18: no two distinct records of the users collection share an email, and
\* no two share a username.
C18_EmailAndUsernameUnique ==
    \A u, v \in Live(users) :
        u # v => /\ users[u].email # users[v].email
                 /\ users[u].username # users[v].username

\* C19: the role of every stored user is one of member, author, admin.
C19_RoleEnumeration ==
    \A u \in Live(users) : users[u].role \in {"member", "author", "admin"}

\* the limit parameter as sent names a number outside 1..100
LimitOutside(rawLimit) ==
    LET n == parseInt(rawLimit)
    IN ~n.nan /\ (n.value < 1 \/ n.value > MaxLimit)

\* C20: a search whose trimmed query is shorter than 2 characters, or whose
\* limit parameter is outside 1..100, is answered 400, and no store call was
\* made for it.
C20_SearchRejectedBeforeStore ==
    \A r \in Reqs :
        (/\ req[r].op = "searchArticles" /\ req[r].pc = "done"
         /\ \/ Len(Trim(req[r].key)) < MinQueryLen
            \/ LimitOutside(req[r].limit))
            => req[r].status = 400 /\ req[r].reads = 0

\* C21: no endpoint but register and login serves a request that carries no
\* valid JWT: an article read that was answered 200 came with an
\* Authorization header that authenticate accepts.
C21_ReadsNeedToken ==
    \A r \in Reqs :
        (req[r].op \in ReadOps /\ req[r].pc = "done" /\ req[r].status = 200)
            => authenticate(req[r].hdr, now).next = 1

\* C22: a close or error handler that runs for a connection already absent
\* from the registry (an error event followed by the close event, or a
\* repeated error event) completes and leaves the registry as it was.
C22_UnregisterIdempotent ==
    [][\A c \in Conns :
          ((CloseEvent(c) \/ ErrorEvent(c)) /\ c \notin SeqToSet(clients))
              => clients' = clients]_vars

\* the error handler has removed a connection whose close event is still
\* due, while another connection is registered
C22_Witness ==
    \E c \in Conns :
        /\ running = 0 /\ wire = <<>>
        /\ readyState[c] = "CLOSING"
        /\ c \notin SeqToSet(clients)
        /\ SeqToSet(clients) # {}

\* C23: a broadcast pass removes from the registry every handle it finds not
\* open: right after a broadcast call (the handler is about to respond) every
\* registered connection is OPEN.
C23_BroadcastPrunesClosed ==
    \A r \in Reqs :
        req[r].pc = "respond"
            => \A c \in SeqToSet(clients) : readyState[c] = "OPEN"

\* what the sockets' states say about the registry: an OPEN socket (its
\* connection event handled, no close or error event yet) is registered, a
\* socket not yet accepted or CLOSED is not, and no handle is held twice
RegistryMatchesSockets ==
    /\ \A c \in Conns : readyState[c] = "OPEN" => c \in SeqToSet(clients)
    /\ \A c \in Conns : readyState[c] \in {"NONE", "CLOSED"} => c \notin SeqToSet(clients)
    /\ Cardinality(SeqToSet(clients)) = Len(clients)

\* C24: the registry holds exactly the connections whose connection event
\* was handled and whose close or error event was not: a step changes it only
\* by the connection handler adding its own connection or a close/error
\* handler removing its own, never an HTTP handler or a broadcast call.
C24_RegistryOnlyByOwnHandlers ==
    [][/\ clients' # clients
           => \E c \in Conns :
                 \/ /\ \E fail \in BOOLEAN : Connection(c, fail)
                    /\ clients' = Append(clients, c)
                 \/ /\ CloseEvent(c) \/ ErrorEvent(c)
                    /\ SeqToSet(clients') = SeqToSet(clients) \ {c}
       /\ RegistryMatchesSockets']_vars

\* a request has broadcast while one connection was registered and another
\* had been closed and removed
C24_Witness ==
    \E r \in Reqs, c, d \in Conns :
        /\ req[r].bcasts > 0
        /\ c \in SeqToSet(clients)
        /\ readyState[d] = "CLOSED" /\ d \notin SeqToSet(clients)

\* C25: a welcome message that fails to reach a newly connected client is
\* ignored: the connection handler has returned, the handle is registered
\* and its handlers are installed, and a handle whose close event was handled
\* is no longer registered.
C25_WelcomeFailureIgnored ==
    /\ \A i \in DOMAIN wire :
          (wire[i].msg = Welcome /\ wire[i].lost)
              => /\ wire[i].to \in SeqToSet(clients)
                 /\ Accepted(wire[i].to)
                 /\ readyState[wire[i].to] = "OPEN"
                 /\ running = 0
    /\ \A c \in Conns : readyState[c] = "CLOSED" => c \notin SeqToSet(clients)

\* the welcome of a second connection is lost while the first has been
\* closed and removed
C25_Witness ==
    \E i \in DOMAIN wire :
        /\ wire[i].msg = Welcome /\ wire[i].lost
        /\ wire[i].to \in SeqToSet(clients)
        /\ \E d \in Conns : readyState[d] = "CLOSED"

\* C26: the access-control chain stops at the first check that fails: a
\* request answered 401 by authenticate, 403 by isAdmin or 403/404 by
\* isAuthorOrAdmin is finished there; no later middleware is entered, its
\* handler does not run and nothing is written or broadcast for it.
C26_ShortCircuit ==
    /\ \A role \in Roles, hasId, dbOk \in BOOLEAN, id \in 0..MaxArticles :
          LET a == isAuthorOrAdmin([NoUser EXCEPT !.userId = 2, !.role = role],
                                   hasId, id, articles, dbOk)
          IN a.status \in {403, 404} => a.next = 0
    /\ \A r \in Reqs :
          LET q == req[r]
              stopped == /\ q.pc = "done" /\ ~q.ran /\ q.written = "no"
                         /\ q.bcasts = 0 /\ q.count = 0
          IN /\ (q.pc \notin {"idle", "authenticate"} /\ q.nAuth = 0)
                   => stopped /\ q.status = 401 /\ q.nAdmin = 0 /\ q.nGate = 0
             /\ (q.nAuth = 1 /\ q.pc # "isAdmin" /\ q.nAdmin = 0)
                   => stopped /\ q.status = 403 /\ q.nGate = 0
             /\ q.status \in {401, 403} => stopped
             /\ q.ran => /\ q.nAuth = 1 /\ q.nAdmin = 1
                         /\ q.op \in GatedOps => q.nGate = 1

\* a member's update by id was answered 403 by isAdmin and went no further
C26_Witness ==
    \E r \in Reqs :
        /\ req[r].pc = "done" /\ req[r].status = 403
        /\ req[r].user.role = "member"
        /\ req[r].op = "updateArticle"
        /\ req[r].nAuth = 1 /\ req[r].nAdmin = 0 /\ req[r].nGate = 0
        /\ ~req[r].ran

\* C27: whatever connections were added or removed before it, a broadcast
\* pass visits the registry as it stands once, in insertion order: the frames
\* it issued go, in that order and one each, to the registered connections
\* that are open, and no event handler has run inside the pass.
C27_PassVisitsEachOnce ==
    \A r \in Reqs :
        req[r].pc = "respond"
            => /\ [i \in DOMAIN wire |-> wire[i].to]
                     = SelectSeq(clients, LAMBDA c : readyState[c] = "OPEN")
               /\ \A i \in DOMAIN wire : wire[i].msg = Event(r, req[r])
               /\ running = r

\* a pass over a registry whose first entry is closing and whose second is
\* open, after which the second alone was sent the event
C27_Witness ==
    \E r \in Reqs :
        /\ req[r].pc = "respond"
        /\ Len(clients) = 2
        /\ readyState[clients[1]] = "CLOSING"
        /\ readyState[clients[2]] = "OPEN"
        /\ Len(wire) = 1 /\ wire[1].to = clients[2]

\* the request has got past the router-wide middleware of the mutation routes
PastRouterGate(q) ==
    \/ q.pc \in {"upload", "isAuthorOrAdmin", "handler", "awaitWrite", "awaitReread",
                  "broadcast", "respond", "hung"}
    \/ q.ran \/ q.written # "no" \/ q.bcasts > 0

\* C28: every request that reaches an article mutation handler, writes to the
\* article store or broadcasts carried a token signed with the secret whose
\* role is admin, and was passed on by authenticate and by isAdmin; a request
\* of a member or an author, or one without a verified token, never does.
C28_OnlyAdminMutates ==
    \A r \in Reqs :
        PastRouterGate(req[r])
            => /\ req[r].op \in Ops
               /\ req[r].nAuth = 1 /\ req[r].nAdmin = 1
               /\ req[r].user.role = "admin"
               /\ \E t \in JwtClaims :
                     /\ JwtString(t) = ExtractToken(req[r].hdr)
                     /\ t.sig = "good" /\ t.role = "admin"
                     /\ t.userId = req[r].user.userId
                     /\ t.iat <= now

\* an admin's delete by author, the route with no gate of its own, has
\* applied and been broadcast
C28_Witness ==
    \E r \in Reqs :
        /\ req[r].op = "deleteArticlesByAuthor"
        /\ req[r].written = "returned" /\ req[r].count > 0
        /\ req[r].bcasts = 1
        /\ req[r].user.role = "admin"

C30_ErrorMeansUnchanged ==
    \A r \in Reqs :
        (req[r].pc = "done" /\ req[r].written = "returned" /\ req[r].count > 0)
            => req[r].status = SuccessStatus(req[r].op)

============================================================================
